---- MODULE Spec2Model ----
(***************************************************************************)
(* format-it.py: list the entries of the directory that holds the script   *)
(* and move every entry whose name contains '_' to the name with '_'       *)
(* replaced by '-'.                                                        *)
(*                                                                         *)
(* A file name is a sequence of one-character strings.  The file system is *)
(* a set of entries [dir, path, kind, org]: dir is the root directory the  *)
(* entry lives under ("base" = the script's directory, "work" = another    *)
(* directory the process may be started from), path the sequence of names  *)
(* from that root, kind "file" or "dir", and org the identity of the       *)
(* object (where it was created), which a rename keeps and an overwrite    *)
(* destroys.                                                               *)
(***************************************************************************)
EXTENDS Integers, Sequences, FiniteSets, TLC

VARIABLES fs, cwd, listing, i, pc, run, attempts, fs0, ext, gone

vars == <<fs, cwd, listing, i, pc, run, attempts, fs0, ext, gone>>

(* ---------------------------------------------------------------- bounds *)
MaxEntries == 3
MaxRuns == 2
MaxExt == 1

(* ----------------------------------------------------------------- names *)
ScriptName == <<"f", "o", "r", "m", "a", "t", "-", "i", "t", ".", "p", "y">>

(* the names an entry of the base directory may have besides the script: *)
(* a_b and a-b collide after substitution, __ and _- both become --      *)
Names == { <<"a", "_", "b">>, <<"a", "-", "b">>, <<"_", "_">>, <<"_", "-">> }

(* the name of an entry nested in a subdirectory, and the subdirectories *)
(* that may hold one                                                     *)
NestedName == <<"a", "_", "b">>

NestedParents == { <<"a", "_", "b">>, <<"a", "-", "b">> }

(* names a file of the other directory may have *)
WorkNames == { <<"a", "_", "b">> }

(* names the external actor may create in the base directory *)
ExtNames == { <<"a", "_", "b">>, <<"a", "-", "b">> }

Dirs == {"base", "work"}

(* '_' in filename *)
HasUnderscore(f) == \E k \in 1..Len(f) : f[k] = "_"

(* filename.replace('_', '-') *)
Replace(f) == [k \in 1..Len(f) |-> IF f[k] = "_" THEN "-" ELSE f[k]]

(* ----------------------------------------------------------- file system *)
Entry(d, p, kind, org) == [dir |-> d, path |-> p, kind |-> kind, org |-> org]

Exists(F, d, p) == \E e \in F : e.dir = d /\ e.path = p

IsDir(F, d, p) == \E e \in F : e.dir = d /\ e.path = p /\ e.kind = "dir"

IsPrefix(p, q) == Len(p) <= Len(q) /\ SubSeq(q, 1, Len(p)) = p

(* os.listdir(d): the names directly under the root d *)
ListDirNames(F, d) == {e.path[1] : e \in {x \in F : x.dir = d /\ Len(x.path) = 1}}

(* os.rename(src, dst) when it succeeds: the object at src, with everything *)
(* below it, is now at dst; what was at dst is gone.                        *)
OsRename(F, d, src, dst) ==
  LET moved == {e \in F : e.dir = d /\ IsPrefix(src, e.path)}
      lost  == {e \in F : e.dir = d /\ IsPrefix(dst, e.path)}
  IN  (F \ (moved \cup lost)) \cup
      {[e EXCEPT !.path = dst \o SubSeq(e.path, Len(src) + 1, Len(e.path))] : e \in moved}

Raise(F) == [ok |-> FALSE, fs |-> F]

Return(F) == [ok |-> TRUE, fs |-> F]

(* shutil.move(f, g), both relative names, resolved in the directory d.    *)
(* g an existing directory: f goes inside it, unless g/f exists (Error).   *)
(* Otherwise os.rename(f, g): a missing f raises; a file f replaces an     *)
(* existing file g (where os.rename refuses, the copy2 + unlink fallback   *)
(* replaces it all the same); a directory f over an existing file g raises *)
(* (os.rename fails and copytree's makedirs finds g).                      *)
ShutilMove(F, d, f, g) ==
  LET src == <<f>>
      dst == <<g>>
      real == <<g, f>>
  IN  IF IsDir(F, d, dst)
      THEN IF Exists(F, d, real) \/ ~Exists(F, d, src)
           THEN Raise(F)
           ELSE Return(OsRename(F, d, src, real))
      ELSE IF ~Exists(F, d, src)
           THEN Raise(F)
           ELSE IF Exists(F, d, dst) /\ IsDir(F, d, src)
                THEN Raise(F)
                ELSE Return(OsRename(F, d, src, dst))

(* ------------------------------------------------------------------ Init *)
Perms(S) ==
  {s \in [1..Cardinality(S) -> S] : \A a, b \in 1..Cardinality(S) : a # b => s[a] # s[b]}

Top(d, n, kind) == Entry(d, <<n>>, kind, <<d, <<n>>, 0>>)

Child(d, n) == Entry(d, <<n, NestedName>>, "file", <<d, <<n, NestedName>>, 0>>)

Tree(S, D, P, W) ==
  {Top("base", ScriptName, "file")}
    \cup {Top("base", n, IF n \in D THEN "dir" ELSE "file") : n \in S}
    \cup {Child("base", n) : n \in P}
    \cup {Top("work", n, "file") : n \in W}

Init ==
  /\ \E S \in SUBSET Names : \E D \in SUBSET S : \E P \in SUBSET (D \cap NestedParents) : \E W \in SUBSET WorkNames :
       /\ Cardinality(S) <= MaxEntries
       /\ fs = Tree(S, D, P, W)
  /\ cwd \in Dirs
  /\ listing = <<>>
  /\ i = 0
  /\ pc = "start"
  /\ run = 1
  /\ attempts = <<>>
  /\ fs0 = fs
  /\ ext = 0
  /\ gone = {}

(* --------------------------------------------------------------- actions *)
(* line 4: os.listdir(os.path.dirname(os.path.abspath(__file__))) *)
ListDir ==
  /\ pc = "start"
  /\ listing' \in Perms(ListDirNames(fs, "base"))
  /\ i' = 1
  /\ pc' = "loop"
  /\ fs0' = fs
  /\ attempts' = <<>>
  /\ gone' = {}
  /\ UNCHANGED <<fs, cwd, run, ext>>

(* line 5, condition false *)
Skip ==
  /\ pc = "loop"
  /\ i <= Len(listing)
  /\ ~HasUnderscore(listing[i])
  /\ i' = i + 1
  /\ UNCHANGED <<fs, cwd, listing, pc, run, attempts, fs0, ext, gone>>

Attempt(f, g, r) ==
  [idx |-> i, src |-> f, dst |-> g, ok |-> r.ok, gone |-> f \in gone,
   before |-> fs, after |-> r.fs]

(* MoveEntry with the exception swallowed (try/except around the move) *)
MoveEntrySwallow ==
  /\ pc = "loop"
  /\ i <= Len(listing)
  /\ HasUnderscore(listing[i])
  /\ LET f == listing[i]
         g == Replace(f)
         r == ShutilMove(fs, cwd, f, g)
     IN  /\ fs' = r.fs
         /\ attempts' = Append(attempts, Attempt(f, g, r))
         /\ i' = i + 1
         /\ pc' = "loop"
  /\ UNCHANGED <<cwd, listing, run, fs0, ext, gone>>

(* MoveEntry with the directory listed again after every move *)
MoveEntryRelist ==
  /\ pc = "loop"
  /\ i <= Len(listing)
  /\ HasUnderscore(listing[i])
  /\ LET f == listing[i]
         g == Replace(f)
         r == ShutilMove(fs, cwd, f, g)
     IN  /\ fs' = r.fs
         /\ attempts' = Append(attempts, Attempt(f, g, r))
         /\ IF r.ok
            THEN /\ listing' \in Perms(ListDirNames(r.fs, "base"))
                 /\ i' = 1
                 /\ pc' = "loop"
            ELSE /\ listing' = listing
                 /\ i' = i
                 /\ pc' = "failed"
  /\ UNCHANGED <<cwd, run, fs0, ext, gone>>

(* lines 5-7, condition true: an exception of shutil.move ends the process *)
MoveEntry ==
  /\ pc = "loop"
  /\ i <= Len(listing)
  /\ HasUnderscore(listing[i])
  /\ LET f == listing[i]
         g == Replace(f)
         r == ShutilMove(fs, cwd, f, g)
     IN  /\ fs' = r.fs
         /\ attempts' = Append(attempts, Attempt(f, g, r))
         /\ IF r.ok
            THEN i' = i + 1 /\ pc' = "loop"
            ELSE i' = i /\ pc' = "failed"
  /\ UNCHANGED <<cwd, listing, run, fs0, ext, gone>>

(* the for loop is exhausted: the script ends, status 0 *)
Exit ==
  /\ pc = "loop"
  /\ i > Len(listing)
  /\ pc' = "done"
  /\ UNCHANGED <<fs, cwd, listing, i, run, attempts, fs0, ext, gone>>

(* the script is started again on the directory it left *)
Rerun ==
  /\ pc = "done"
  /\ run < MaxRuns
  /\ run' = run + 1
  /\ pc' = "start"
  /\ UNCHANGED <<fs, cwd, listing, i, attempts, fs0, ext, gone>>

(* another process removes an underscore-named entry of the base directory *)
(* during the run                                                          *)
ExtRemove ==
  /\ pc = "loop"
  /\ ext < MaxExt
  /\ \E n \in {x \in ListDirNames(fs, "base") : HasUnderscore(x)} :
       /\ fs' = {e \in fs : ~(e.dir = "base" /\ IsPrefix(<<n>>, e.path))}
       /\ gone' = gone \cup {n}
  /\ ext' = ext + 1
  /\ UNCHANGED <<cwd, listing, i, pc, run, attempts, fs0>>

(* another process creates a file in the base directory during the run *)
ExtWrite ==
  /\ pc = "loop"
  /\ ext < MaxExt
  /\ \E n \in ExtNames \ ListDirNames(fs, "base") :
       /\ fs' = fs \cup {Entry("base", <<n>>, "file", <<"ext", <<n>>, ext + 1>>)}
       /\ gone' = gone \ {n}
  /\ ext' = ext + 1
  /\ UNCHANGED <<cwd, listing, i, pc, run, attempts, fs0>>

(* one run, nothing else touches the directories *)
Next == ListDir \/ Skip \/ MoveEntry \/ Exit

Spec == Init /\ [][Next]_vars

(* the script run again after a run that succeeded *)
NextTwice == ListDir \/ Skip \/ MoveEntry \/ Exit \/ Rerun

SpecTwice == Init /\ [][NextTwice]_vars

(* one run, with another process acting on the base directory *)
NextConc == ListDir \/ Skip \/ MoveEntry \/ Exit \/ ExtRemove \/ ExtWrite

SpecConc == Init /\ [][NextConc]_vars

(* ------------------------------------------------------------ vocabulary *)
BaseNames(F) == ListDirNames(F, "base")

Listed == BaseNames(fs0)

Qualifying == {f \in Listed : HasUnderscore(f)}

Finished == pc \in {"done", "failed"}

Under(F, d, n) == {e \in F : e.dir = d /\ IsPrefix(<<n>>, e.path)}

Nested(F) == {e \in F : Len(e.path) > 1}

LeafName(e) == e.path[Len(e.path)]

Attempts == {attempts[k] : k \in 1..Len(attempts)}

(* ------------------------------------------------------------------- C1 *)
(* C1: after a run that ended in success, every underscore name f listed  *)
(* in the base directory is gone from the base directory and the name f   *)
(* with every '_' replaced by '-' is an entry of the base directory.      *)
C1_Renamed ==
  pc = "done" =>
    \A f \in Qualifying :
      /\ f \notin BaseNames(fs)
      /\ Replace(f) \in BaseNames(fs)

(* ------------------------------------------------------------------- C2 *)
(* C2: after a run, every entry of the base directory whose name has no   *)
(* underscore is still there, the same object under the same name, and    *)
(* what it holds is what it held.                                         *)
C2_Untouched ==
  Finished =>
    \A n \in {f \in Listed : ~HasUnderscore(f)} :
      Under(fs, "base", n) = Under(fs0, "base", n)

(* ------------------------------------------------------------------- C3 *)
(* C3: a move whose substituted name already exists in the directory it   *)
(* acts on raises a failure: it neither replaces the existing target nor  *)
(* leaves without an error.                                               *)
C3_CollisionRaises ==
  \A a \in Attempts :
    (Exists(a.before, cwd, <<a.src>>) /\ Exists(a.before, cwd, <<a.dst>>)) =>
      /\ ~a.ok
      /\ a.after = a.before

(* ------------------------------------------------------------------- C4 *)
(* C4: after one successful run no entry of the base directory has an     *)
(* underscore in its name, and a second run makes no rename attempt,      *)
(* does not fail and leaves the directories as the first run left them.   *)
C4_Idempotent ==
  /\ (run = 1 /\ pc = "done") => \A f \in BaseNames(fs) : ~HasUnderscore(f)
  /\ (run >= 2 /\ pc # "start") =>
       /\ attempts = <<>>
       /\ fs = fs0
       /\ pc # "failed"

(* ------------------------------------------------------------------- C5 *)
(* C5: when a move raises, it is the last attempt of the run; every       *)
(* qualifying entry attempted before it is in the base directory under    *)
(* its hyphenated name and no longer under its old one, and the failing   *)
(* entry and the entries listed after it are there under their old names. *)
C5_FailFast ==
  /\ \A k \in 1..Len(attempts) : ~attempts[k].ok => (k = Len(attempts) /\ pc = "failed")
  /\ pc = "failed" =>
       /\ \A k \in 1..(Len(attempts) - 1) :
            /\ attempts[k].src \notin BaseNames(fs)
            /\ attempts[k].dst \in BaseNames(fs)
       /\ \A j \in i..Len(listing) : listing[j] \in BaseNames(fs)

(* ------------------------------------------------------------------- C6 *)
(* C6: the run ends in success exactly when every qualifying entry of     *)
(* the listing had its move return without an error, it ends in failure   *)
(* exactly when a move raised, and with nothing but the script in the     *)
(* directory it makes no move and does not fail.                          *)
C6_ExitOutcome ==
  /\ pc = "done" =>
       /\ \A a \in Attempts : a.ok
       /\ \A k \in 1..Len(listing) :
            HasUnderscore(listing[k]) => \E a \in Attempts : a.idx = k /\ a.ok
  /\ pc = "failed" <=> (\E a \in Attempts : ~a.ok)
  /\ (pc # "start" /\ Listed = {ScriptName}) => (attempts = <<>> /\ pc # "failed")

(* a run that renamed one entry and failed at the next *)
C6_Witness ==
  /\ pc = "failed"
  /\ Len(attempts) = 2
  /\ attempts[1].ok
  /\ ~attempts[2].ok

(* ------------------------------------------------------------------- C7 *)
(* C7: every move acts in the base directory: a successful move takes     *)
(* the listed name out of the base directory, and no entry of any other   *)
(* directory is moved, created or removed.                                *)
C7_InBaseDir ==
  /\ {e \in fs : e.dir # "base"} = {e \in fs0 : e.dir # "base"}
  /\ \A a \in Attempts :
       a.ok => (Exists(a.before, "base", <<a.src>>) /\ ~Exists(a.after, "base", <<a.src>>))

(* ------------------------------------------------------------------- C8 *)
(* C8: the listing is the set of names the base directory held when the   *)
(* run started; the attempts are made at strictly increasing positions    *)
(* of it, each for the underscore name at that position, so no entry is   *)
(* attempted twice, no name that appeared later is attempted, and there   *)
(* are at most as many attempts as underscore names in the listing.       *)
C8_ListingSnapshot ==
  pc # "start" =>
    /\ Len(listing) = Cardinality(Listed)
    /\ {listing[k] : k \in 1..Len(listing)} = Listed
    /\ \A k \in 1..Len(attempts) :
         /\ attempts[k].idx \in 1..Len(listing)
         /\ attempts[k].src = listing[attempts[k].idx]
         /\ attempts[k].src \in Qualifying
         /\ \A j \in 1..(k - 1) : attempts[j].idx < attempts[k].idx
    /\ Len(attempts) <= Cardinality(Qualifying)

(* a finished run during which another process created an underscore     *)
(* name that the run never attempted                                     *)
C8_Witness ==
  /\ pc = "done"
  /\ Len(attempts) >= 1
  /\ \E n \in BaseNames(fs) :
       /\ HasUnderscore(n)
       /\ n \notin Listed
       /\ \A a \in Attempts : a.src # n

(* ------------------------------------------------------------------- C9 *)
(* C9: no nested entry is ever renamed, moved out of its directory or     *)
(* removed, and after a successful run every subdirectory listed under    *)
(* an underscore name is in the base directory under the hyphenated       *)
(* name, holding what it held.                                            *)
NestedKept ==
  \A e \in Nested(fs0) :
    \E x \in Nested(fs) :
      /\ x.org = e.org
      /\ LeafName(x) = LeafName(e)
      /\ \E y \in fs, z \in fs0 :
           /\ y.dir = x.dir /\ y.path = SubSeq(x.path, 1, Len(x.path) - 1)
           /\ z.dir = e.dir /\ z.path = SubSeq(e.path, 1, Len(e.path) - 1)
           /\ y.org = z.org

C9_NonRecursive ==
  /\ NestedKept
  /\ pc = "done" =>
       \A e \in fs0 :
         (e.dir = "base" /\ Len(e.path) = 1 /\ e.kind = "dir" /\ HasUnderscore(e.path[1])) =>
           /\ [e EXCEPT !.path = <<Replace(e.path[1])>>] \in fs
           /\ \A c \in Under(fs0, "base", e.path[1]) :
                [c EXCEPT !.path = <<Replace(e.path[1])>> \o SubSeq(c.path, 2, Len(c.path))] \in fs

(* ------------------------------------------------------------------ C10 *)
(* C10: the move of a listed entry that another process removed before    *)
(* the run reached it raises and is the last attempt of the run, and no   *)
(* listed entry is attempted twice.                                       *)
C10_ConcurrentRemoval ==
  /\ \A k \in 1..Len(attempts) :
       attempts[k].gone => (~attempts[k].ok /\ k = Len(attempts) /\ pc = "failed")
  /\ \A j, k \in 1..Len(attempts) : j # k => attempts[j].idx # attempts[k].idx

(* ---------------------------------------- runs started in the base directory *)
(* What the run does when its working directory is the base directory.    *)
BaseRun_Renamed == cwd = "base" => C1_Renamed

BaseRun_Idempotent == cwd = "base" => C4_Idempotent

BaseRun_FailFast == cwd = "base" => C5_FailFast

BaseRun_InBaseDir == cwd = "base" => C7_InBaseDir

BaseRun_ConcurrentRemoval == cwd = "base" => C10_ConcurrentRemoval

====
